---- MODULE Spec2Model ----
(***************************************************************************)
(* wtfis entry point (src/wtfis/main.py): client selection, the fetch loop *)
(* that consumes the handler's progress events, warning output and view    *)
(* selection.                                                              *)
(***************************************************************************)
EXTENDS Integers, Sequences, FiniteSets, TLC

\* ------------------------------------------------------------------ inputs
DomainEntities == {"example.com"}
IpEntities == {"93.184.216.34", "10.0.0.5"}
Entities == DomainEntities \cup IpEntities

\* wtfis.utils.is_ip: classification of the entity string
is_ip(e) == e \in IpEntities

\* value of config.max_resolutions
MaxResolutions == 3
\* an IpAddressHandler takes no max_resolutions argument
NoResolutions == -1

\* number of generator steps an arbitrary BaseHandler may take
MaxEvents == 3

\* default total of a task made by progress.add_task(descr)
TaskTotal == 100

Configs ==
    [entity : Entities,
     ip2whois_api_key : BOOLEAN,
     use_shodan : BOOLEAN,
     use_greynoise : BOOLEAN,
     use_abuseipdb : BOOLEAN,
     use_urlhaus : BOOLEAN,
     max_resolutions : {MaxResolutions}]

\* --------------------------------------------------------- client objects
NoClient == [cls |-> "None", id |-> 0]
Client(c, i) == [cls |-> c, id |-> i]

vt_client == Client("VTClient", 1)
ip_geoasn_client == Client("IpWhoisClient", 2)

\* the IP check of main.py:41 left out
whois_client_no_ip_check(cfg) ==
    IF cfg.ip2whois_api_key
    THEN Client("Ip2WhoisClient", 3)
    ELSE vt_client

\* main.py:46 building a second VTClient instead of reusing vt_client
whois_client_fresh_vt(cfg) ==
    IF cfg.ip2whois_api_key /\ ~is_ip(cfg.entity)
    THEN Client("Ip2WhoisClient", 3)
    ELSE Client("VTClient", 8)

whois_client(cfg) ==
    IF cfg.ip2whois_api_key /\ ~is_ip(cfg.entity)
    THEN Client("Ip2WhoisClient", 3)
    ELSE vt_client

\* main.py:49 building the client whatever config.use_shodan says
shodan_client_always(cfg) == Client("ShodanClient", 4)

shodan_client(cfg) ==
    IF cfg.use_shodan THEN Client("ShodanClient", 4) ELSE NoClient

\* main.py:54 testing the flag of the client above it
greynoise_client_wrong_flag(cfg) ==
    IF cfg.use_shodan THEN Client("GreynoiseClient", 5) ELSE NoClient

greynoise_client(cfg) ==
    IF cfg.use_greynoise THEN Client("GreynoiseClient", 5) ELSE NoClient

abuseipdb_client(cfg) ==
    IF cfg.use_abuseipdb THEN Client("AbuseIpDbClient", 6) ELSE NoClient

urlhaus_client(cfg) ==
    IF cfg.use_urlhaus THEN Client("UrlHausClient", 7) ELSE NoClient

NoHandler ==
    [type |-> "None", entity |-> "", vt_client |-> NoClient,
     ip_geoasn_client |-> NoClient, whois_client |-> NoClient,
     shodan_client |-> NoClient, greynoise_client |-> NoClient,
     abuseipdb_client |-> NoClient, urlhaus_client |-> NoClient,
     max_resolutions |-> NoResolutions]

\* the branches of main.py:66 swapped
HandlerType_swapped(cfg) ==
    IF is_ip(cfg.entity) THEN "DomainHandler" ELSE "IpAddressHandler"

HandlerType(cfg) ==
    IF ~is_ip(cfg.entity) THEN "DomainHandler" ELSE "IpAddressHandler"

generate_entity_handler(cfg) ==
    [type |-> HandlerType(cfg),
     entity |-> cfg.entity,
     vt_client |-> vt_client,
     ip_geoasn_client |-> ip_geoasn_client,
     whois_client |-> whois_client(cfg),
     shodan_client |-> shodan_client(cfg),
     greynoise_client |-> greynoise_client(cfg),
     abuseipdb_client |-> abuseipdb_client(cfg),
     urlhaus_client |-> urlhaus_client(cfg),
     max_resolutions |-> IF HandlerType(cfg) = "DomainHandler"
                         THEN cfg.max_resolutions ELSE NoResolutions]

\* ------------------------------------------------------------------ state
VARIABLES
    config,      \* Config() of this run
    impl,        \* "spec": the documented handlers; "any": any BaseHandler
    pc,          \* position of main()
    entity,      \* the handler returned by generate_entity_handler
    gi, gstage,  \* position of the handler's fetch_data generator
    steps,       \* generator steps taken so far
    result,      \* the handler's fetch-result fields
    writes,      \* how often each result field was assigned
    warnings,    \* the handler's warning list
    tasks,       \* tasks of the Progress object, in order of creation
    task,        \* fetch_data's local `task` (0 is None)
    live,        \* state of the Progress display
    events,      \* events fetch_data has consumed, in order
    view,        \* the view returned by generate_view
    output,      \* what has been shown to the user, in order
    caught,      \* the HandlerException bound at main.py:153 ("" if none)
    error,       \* message of the error that ended the run
    exit_code,   \* -1 while running
    trace        \* calls made by main(), in order

vars == <<config, impl, pc, entity, gi, gstage, steps, result, writes,
          warnings, tasks, task, live, events, view, output, caught,
          error, exit_code, trace>>

Fields == {"vt_info", "geoasn", "whois", "resolutions",
           "shodan", "greynoise", "abuseipdb", "urlhaus"}

NoView == [cls |-> "None", sections |-> [f \in {} |-> "None"],
           max_resolutions |-> NoResolutions]

InitCommon ==
    /\ config \in Configs
    /\ pc = "config"
    /\ entity = NoHandler
    /\ gi = 0
    /\ gstage = "none"
    /\ steps = 0
    /\ result = [f \in Fields |-> "None"]
    /\ writes = [f \in Fields |-> 0]
    /\ warnings = <<>>
    /\ tasks = <<>>
    /\ task = 0
    /\ live = "new"
    /\ events = <<>>
    /\ view = NoView
    /\ output = <<>>
    /\ caught = ""
    /\ error = ""
    /\ exit_code = -1
    /\ trace = <<>>

Init == InitCommon /\ impl = "spec"

InitAny == InitCommon /\ impl = "any"

\* main.py:169
GenerateEntityHandler ==
    /\ pc = "config"
    /\ entity' = generate_entity_handler(config)
    /\ pc' = "handler"
    /\ trace' = Append(trace, "generate_entity_handler")
    /\ UNCHANGED <<config, impl, gi, gstage, steps, result, writes, warnings,
                   tasks, task, live, events, view, output, error,
                   exit_code, caught>>

\* ------------------------------------------------- the Progress object
add_task(ts, descr) ==
    Append(ts, [descr |-> descr, total |-> TaskTotal, completed |-> 0,
                forced |-> 0])

update_advance(ts, t, a) == [ts EXCEPT ![t].completed = @ + a]

update_completed(ts, t, c) ==
    [ts EXCEPT ![t].completed = c, ![t].forced = @ + 1]

\* main.py:137-139
finish_task(ts, t) == IF t # 0 THEN update_completed(ts, t, 100) ELSE ts

\* the call of _finish_task at main.py:146 left out
on_tuple_no_close(ts, t, descr, adv) ==
    LET new == Len(ts) + 1
    IN [tasks |-> update_advance(add_task(ts, descr), new, adv),
        task |-> new]

\* main.py:149 left out: the new task gets no advance
on_tuple_no_advance(ts, t, descr, adv) ==
    LET closed == finish_task(ts, t)
        new == Len(closed) + 1
    IN [tasks |-> add_task(closed, descr), task |-> new]

\* main.py:148 not rebinding `task` once it is set
on_tuple_stale_task(ts, t, descr, adv) ==
    LET closed == finish_task(ts, t)
        new == Len(closed) + 1
    IN [tasks |-> update_advance(add_task(closed, descr), new, adv),
        task |-> IF t = 0 THEN new ELSE t]

\* main.py:145-149, x is a tuple (descr, adv)
on_tuple(ts, t, descr, adv) ==
    LET closed == finish_task(ts, t)
        new == Len(closed) + 1
    IN [tasks |-> update_advance(add_task(closed, descr), new, adv),
        task |-> new]

\* main.py:151 advancing the first task instead of `task`
on_int_first(ts, t, x) ==
    [tasks |-> IF t # 0 THEN update_advance(ts, 1, x) ELSE ts, task |-> t]

\* an int that finds no task opens one
on_int_opens(ts, t, x) ==
    IF t # 0
    THEN [tasks |-> update_advance(ts, t, x), task |-> t]
    ELSE [tasks |-> update_advance(add_task(ts, ""), Len(ts) + 1, x),
          task |-> Len(ts) + 1]

\* main.py:150-151, x is an int
on_int(ts, t, x) ==
    [tasks |-> IF t # 0 THEN update_advance(ts, t, x) ELSE ts, task |-> t]

Event(k, d, n) == [kind |-> k, descr |-> d, n |-> n]

\* main.py:141-142 and the call of entity.fetch_data() at 144
FetchBegin ==
    /\ pc = "handler"
    /\ pc' = "fetching"
    /\ task' = 0
    /\ live' = "live"
    /\ gi' = 1
    /\ gstage' = "start"
    /\ trace' = Append(trace, "fetch_data")
    /\ UNCHANGED <<config, impl, entity, steps, result, writes, warnings,
                   tasks, events, view, output, error, exit_code, caught>>

\* one iteration of the loop at main.py:144 on a tuple
ConsumeTuple(descr, adv) ==
    LET r == on_tuple(tasks, task, descr, adv)
    IN /\ tasks' = r.tasks
       /\ task' = r.task
       /\ events' = Append(events, Event("tuple", descr, adv))

\* one iteration of the loop at main.py:144 on an int
ConsumeInt(x) ==
    LET r == on_int(tasks, task, x)
    IN /\ tasks' = r.tasks
       /\ task' = r.task
       /\ events' = Append(events, Event("int", "", x))

\* main.py:152 left out: the last task is never finished
ConsumeEnd_no_finish ==
    /\ tasks' = tasks
    /\ live' = "stopped"
    /\ pc' = "warnings_ready"

\* error_and_exit reached on the normal path as well
ConsumeEnd_exits ==
    /\ tasks' = finish_task(tasks, task)
    /\ live' = "stopped"
    /\ pc' = "exited"

\* main.py:152 and the exit of the with block
ConsumeEnd ==
    /\ tasks' = finish_task(tasks, task)
    /\ live' = "stopped"
    /\ pc' = "warnings_ready"

\* wtfis.utils.error_and_exit: shows the message, ends the process with a
\* failure status
error_and_exit(msg) ==
    /\ output' = Append(output, "error")
    /\ error' = msg
    /\ exit_code' = 1
    /\ pc' = "exited"

\* progress.stop() of main.py:154 left out
ConsumeHandlerException_no_stop(msg) ==
    /\ live' = live
    /\ caught' = msg
    /\ pc' = "caught"
    /\ UNCHANGED <<output, error, exit_code>>

\* main.py:153-154: the exception is bound to e, then progress.stop()
ConsumeHandlerException(msg) ==
    /\ live' = "stopped"
    /\ caught' = msg
    /\ pc' = "caught"
    /\ UNCHANGED <<output, error, exit_code>>

\* the exception reported but the process not ended
ExitOnHandlerException_returns ==
    /\ pc = "caught"
    /\ output' = Append(output, "error")
    /\ error' = caught
    /\ exit_code' = exit_code
    /\ pc' = "warnings_ready"
    /\ UNCHANGED <<config, impl, entity, gi, gstage, steps, result, writes,
                   warnings, tasks, task, live, events, view, caught, trace>>

\* main.py:155: error_and_exit(str(e))
ExitOnHandlerException ==
    /\ pc = "caught"
    /\ error_and_exit(caught)
    /\ UNCHANGED <<config, impl, entity, gi, gstage, steps, result, writes,
                   warnings, tasks, task, live, events, view, caught, trace>>

\* -------------------------------------- the documented handlers' generator
Mandatory == {"vt_info", "geoasn", "whois", "resolutions"}
Optional == {"shodan", "greynoise", "abuseipdb", "urlhaus"}

Configured(h, p) ==
    CASE p = "shodan" -> h.shodan_client # NoClient
      [] p = "greynoise" -> h.greynoise_client # NoClient
      [] p = "abuseipdb" -> h.abuseipdb_client # NoClient
      [] p = "urlhaus" -> h.urlhaus_client # NoClient
      [] OTHER -> TRUE

\* core, geo/ASN, whois, (domain: resolutions), then the optional providers
ProviderOrder(h) ==
    LET Test(p) == Configured(h, p)
    IN <<"vt_info", "geoasn", "whois">>
       \o (IF h.type = "DomainHandler" /\ h.max_resolutions # 0
           THEN <<"resolutions">> ELSE <<>>)
       \o SelectSeq(<<"shodan", "greynoise", "abuseipdb", "urlhaus">>, Test)

\* what a successful call of provider p stores in the handler
Reply(h, p) ==
    CASE p = "vt_info" ->
           IF h.type = "DomainHandler" THEN "Domain" ELSE "IpAddress"
      [] p = "whois" -> h.whois_client.cls
      [] OTHER -> "Data"

PhaseAdvance == 50

InPass == pc = "fetching" /\ impl = "spec"
Current == ProviderOrder(entity)[gi]
HasCurrent == gi <= Len(ProviderOrder(entity))

HandlerYieldStart ==
    /\ InPass /\ HasCurrent /\ gstage = "start"
    /\ ConsumeTuple(Current, PhaseAdvance)
    /\ gstage' = "call"
    /\ steps' = steps + 1
    /\ UNCHANGED <<config, impl, pc, entity, gi, result, writes, warnings,
                   live, view, output, error, exit_code, caught, trace>>

ProviderOk ==
    /\ InPass /\ HasCurrent /\ gstage = "call"
    /\ result' = [result EXCEPT ![Current] = Reply(entity, Current)]
    /\ writes' = [writes EXCEPT ![Current] = @ + 1]
    /\ gstage' = "adv"
    /\ UNCHANGED <<config, impl, pc, entity, gi, steps, warnings, tasks,
                   task, live, events, view, output, error, exit_code, caught,
                   trace>>

MandatoryFail ==
    /\ InPass /\ HasCurrent /\ gstage = "call"
    /\ Current \in Mandatory
    /\ ConsumeHandlerException(Current)
    /\ UNCHANGED <<config, impl, entity, gi, gstage, steps, result, writes,
                   warnings, tasks, task, events, view, trace>>

\* the failure swallowed without a warning
OptionalFail_silent ==
    /\ InPass /\ HasCurrent /\ gstage = "call"
    /\ Current \in Optional
    /\ warnings' = warnings
    /\ gstage' = "adv"
    /\ UNCHANGED <<config, impl, pc, entity, gi, steps, result, writes,
                   tasks, task, live, events, view, output, error,
                   exit_code, caught, trace>>

OptionalFail ==
    /\ InPass /\ HasCurrent /\ gstage = "call"
    /\ Current \in Optional
    /\ warnings' = Append(warnings, Current)
    /\ gstage' = "adv"
    /\ UNCHANGED <<config, impl, pc, entity, gi, steps, result, writes,
                   tasks, task, live, events, view, output, error,
                   exit_code, caught, trace>>

HandlerYieldAdvance ==
    /\ InPass /\ HasCurrent /\ gstage = "adv"
    /\ ConsumeInt(PhaseAdvance)
    /\ gi' = gi + 1
    /\ gstage' = "start"
    /\ steps' = steps + 1
    /\ UNCHANGED <<config, impl, pc, entity, result, writes, warnings,
                   live, view, output, error, exit_code, caught, trace>>

HandlerExhausted ==
    /\ InPass /\ ~HasCurrent
    /\ ConsumeEnd
    /\ UNCHANGED <<config, impl, entity, gi, gstage, steps, result, writes,
                   warnings, task, events, view, output, error, exit_code, caught,
                   trace>>

\* ------------------------------------------------- an arbitrary BaseHandler
AnyLabels == {"phase"}
AnyAmounts == {33, 50}
AnyShapes == {"Domain", "IpAddress"}

InAnyPass == pc = "fetching" /\ impl = "any"
More == steps < MaxEvents

AnyYieldStart ==
    /\ InAnyPass /\ More
    /\ \E d \in AnyLabels, a \in AnyAmounts : ConsumeTuple(d, a)
    /\ steps' = steps + 1
    /\ UNCHANGED <<config, impl, pc, entity, gi, gstage, result, writes,
                   warnings, live, view, output, error, exit_code, caught, trace>>

AnyYieldAdvance ==
    /\ InAnyPass /\ More
    /\ \E x \in AnyAmounts : ConsumeInt(x)
    /\ steps' = steps + 1
    /\ UNCHANGED <<config, impl, pc, entity, gi, gstage, result, writes,
                   warnings, live, view, output, error, exit_code, caught, trace>>

AnySetCore ==
    /\ InAnyPass /\ More
    /\ \E s \in AnyShapes : result' = [result EXCEPT !["vt_info"] = s]
    /\ writes' = [writes EXCEPT !["vt_info"] = @ + 1]
    /\ steps' = steps + 1
    /\ UNCHANGED <<config, impl, pc, entity, gi, gstage, warnings, tasks,
                   task, live, events, view, output, error, exit_code, caught,
                   trace>>

AnyWarn ==
    /\ InAnyPass /\ More
    /\ warnings' = Append(warnings, "provider")
    /\ steps' = steps + 1
    /\ UNCHANGED <<config, impl, pc, entity, gi, gstage, result, writes,
                   tasks, task, live, events, view, output, error,
                   exit_code, caught, trace>>

AnyRaise ==
    /\ InAnyPass
    /\ ConsumeHandlerException("HandlerException")
    /\ UNCHANGED <<config, impl, entity, gi, gstage, steps, result, writes,
                   warnings, tasks, task, events, view, trace>>

AnyExhausted ==
    /\ InAnyPass
    /\ ConsumeEnd
    /\ UNCHANGED <<config, impl, entity, gi, gstage, steps, result, writes,
                   warnings, task, events, view, output, error, exit_code, caught,
                   trace>>

\* ------------------------------------------------------- the rest of main
\* main.py:175; BaseHandler.print_warnings shows each warning to the user
PrintWarnings ==
    /\ pc = "warnings_ready"
    /\ output' = output \o [i \in 1..Len(warnings) |-> "warning"]
    /\ pc' = "view"
    /\ trace' = Append(trace, "print_warnings")
    /\ UNCHANGED <<config, impl, entity, gi, gstage, steps, result, writes,
                   warnings, tasks, task, live, events, view, error,
                   exit_code, caught>>

Unsupported == [cls |-> "WtfisException", sections |-> [f \in {} |-> "None"],
                max_resolutions |-> NoResolutions]

\* the isinstance checks on entity.vt_info left out
generate_view_no_shape_check(cfg, h, res) ==
    IF h.type = "DomainHandler"
    THEN [cls |-> "DomainView", sections |-> res,
          max_resolutions |-> cfg.max_resolutions]
    ELSE IF h.type = "IpAddressHandler"
    THEN [cls |-> "IpAddressView",
          sections |-> [f \in Fields \ {"resolutions"} |-> res[f]],
          max_resolutions |-> NoResolutions]
    ELSE Unsupported

\* the else branch of main.py:126 falling back to a domain view
generate_view_fallback(cfg, h, res) ==
    IF h.type = "IpAddressHandler" /\ res["vt_info"] = "IpAddress"
    THEN [cls |-> "IpAddressView",
          sections |-> [f \in Fields \ {"resolutions"} |-> res[f]],
          max_resolutions |-> NoResolutions]
    ELSE [cls |-> "DomainView", sections |-> res,
          max_resolutions |-> cfg.max_resolutions]

\* main.py:96-129
generate_view(cfg, h, res) ==
    IF h.type = "DomainHandler" /\ res["vt_info"] = "Domain"
    THEN [cls |-> "DomainView", sections |-> res,
          max_resolutions |-> cfg.max_resolutions]
    ELSE IF h.type = "IpAddressHandler" /\ res["vt_info"] = "IpAddress"
    THEN [cls |-> "IpAddressView",
          sections |-> [f \in Fields \ {"resolutions"} |-> res[f]],
          max_resolutions |-> NoResolutions]
    ELSE Unsupported

\* main.py:178
GenerateView ==
    /\ pc = "view"
    /\ trace' = Append(trace, "generate_view")
    /\ LET v == generate_view(config, entity, result)
       IN IF v = Unsupported
          THEN /\ pc' = "raised"
               /\ error' = "Unsupported entity!"
               /\ exit_code' = 1
               /\ view' = view
          ELSE /\ pc' = "print"
               /\ view' = v
               /\ UNCHANGED <<error, exit_code>>
    /\ UNCHANGED <<config, impl, entity, gi, gstage, steps, result, writes,
                   warnings, tasks, task, live, events, output, caught>>

\* the view printed without main() moving on
ViewPrint_again ==
    /\ pc = "print"
    /\ output' = Append(output, view.cls)
    /\ pc' = "print"
    /\ exit_code' = 0
    /\ trace' = Append(trace, "print")
    /\ UNCHANGED <<config, impl, entity, gi, gstage, steps, result, writes,
                   warnings, tasks, task, live, events, view, error,
                   caught>>

\* main.py:181
ViewPrint ==
    /\ pc = "print"
    /\ output' = Append(output, view.cls)
    /\ pc' = "done"
    /\ exit_code' = 0
    /\ trace' = Append(trace, "print")
    /\ UNCHANGED <<config, impl, entity, gi, gstage, steps, result, writes,
                   warnings, tasks, task, live, events, view, error,
                   caught>>

Next ==
    \/ GenerateEntityHandler
    \/ FetchBegin
    \/ HandlerYieldStart
    \/ ProviderOk
    \/ MandatoryFail
    \/ ExitOnHandlerException
    \/ OptionalFail
    \/ HandlerYieldAdvance
    \/ HandlerExhausted
    \/ PrintWarnings
    \/ GenerateView
    \/ ViewPrint

NextAny ==
    \/ GenerateEntityHandler
    \/ FetchBegin
    \/ AnyYieldStart
    \/ AnyYieldAdvance
    \/ AnySetCore
    \/ AnyWarn
    \/ AnyRaise
    \/ ExitOnHandlerException
    \/ AnyExhausted
    \/ PrintWarnings
    \/ GenerateView
    \/ ViewPrint

\* ------------------------------------------------------------ properties
Range(q) == {q[i] : i \in 1..Len(q)}
Count(q, x) == Cardinality({i \in 1..Len(q) : q[i] = x})
Built == entity # NoHandler
Called(f) == f \in Range(trace)
Reports == {"DomainView", "IpAddressView"}
HandlerFailed == error \notin {"", "Unsupported entity!"}
PassEnded == pc \in {"warnings_ready", "view", "print", "done", "raised"}
Dedicated == entity.whois_client.cls = "Ip2WhoisClient"

\* C1: the handler's WHOIS client is the dedicated Ip2Whois client exactly
\* when the Ip2Whois credential is present and the entity is not an IP;
\* in every other case it is the core VirusTotal client.
C1_WhoisClient ==
    Built =>
        /\ Dedicated <=>
             (config.ip2whois_api_key /\ config.entity \notin IpEntities)
        /\ ~Dedicated =>
             /\ entity.whois_client.cls = "VTClient"
             /\ entity.whois_client = entity.vt_client

C1_Witness ==
    /\ Built /\ Dedicated
    /\ config.entity \in DomainEntities

\* C2: an IP entity gets the IP handler, which has no resolutions setting
\* and never performs the resolutions step; any other entity gets the
\* domain handler.
C2_HandlerVariant ==
    Built =>
        IF config.entity \in IpEntities
        THEN /\ entity.type = "IpAddressHandler"
             /\ entity.max_resolutions = NoResolutions
             /\ writes["resolutions"] = 0
             /\ result["resolutions"] = "None"
             /\ \A i \in 1..Len(events) : events[i].descr # "resolutions"
        ELSE entity.type = "DomainHandler"

C2_Witness ==
    /\ config.entity \in IpEntities
    /\ entity.type = "IpAddressHandler"
    /\ pc = "done"

\* C3: each of the four optional clients is built exactly when its own flag
\* is set, whatever the other flags and the entity are; building the handler
\* never fails.
C3_OptionalClients ==
    /\ pc # "config" => Built
    /\ pc \in {"config", "handler"} => exit_code = -1 /\ error = ""
    /\ Built =>
        /\ entity.shodan_client =
             (IF config.use_shodan THEN Client("ShodanClient", 4)
              ELSE NoClient)
        /\ entity.greynoise_client =
             (IF config.use_greynoise THEN Client("GreynoiseClient", 5)
              ELSE NoClient)
        /\ entity.abuseipdb_client =
             (IF config.use_abuseipdb THEN Client("AbuseIpDbClient", 6)
              ELSE NoClient)
        /\ entity.urlhaus_client =
             (IF config.use_urlhaus THEN Client("UrlHausClient", 7)
              ELSE NoClient)

C3_Witness ==
    /\ Built
    /\ entity.shodan_client # NoClient
    /\ entity.greynoise_client = NoClient
    /\ entity.abuseipdb_client # NoClient
    /\ entity.urlhaus_client = NoClient

\* C4: once the event sequence is exhausted, every task opened during the
\* pass has been force-completed and stands at 100: as many tasks were
\* forced as were opened, one per phase-start event.
ForcedTasks == {i \in 1..Len(tasks) : tasks[i].forced > 0}

C4_AllPhasesCompleted ==
    PassEnded =>
        /\ Cardinality(ForcedTasks) = Len(tasks)
        /\ Len(tasks) = Cardinality({i \in 1..Len(events) :
                                       events[i].kind = "tuple"})
        /\ \A i \in 1..Len(tasks) :
             tasks[i].completed = 100 /\ tasks[i].completed >= tasks[i].total

C4_Witness ==
    /\ pc = "warnings_ready"
    /\ Len(tasks) >= 2
    /\ events[Len(events)].kind = "int"

\* C5: after a HandlerException no view is built or printed, print_warnings
\* is not called and the process exits with a failure status.
C5_MandatoryFailure ==
    HandlerFailed =>
        /\ view = NoView
        /\ Range(output) \cap Reports = {}
        /\ ~Called("print_warnings")
        /\ ~Called("generate_view")
        /\ ~Called("print")
        /\ pc = "exited"
        /\ exit_code = 1

C5_Witness ==
    /\ HandlerFailed
    /\ Len(events) >= 2

\* C8: generate_view returns a domain view exactly for a domain handler with
\* a domain-shaped core result, an IP view exactly for an IP handler with an
\* IP-shaped core result, and no view for any other combination.
C8_ViewVariant ==
    Called("generate_view") =>
        /\ view.cls = "DomainView" <=>
             (entity.type = "DomainHandler" /\ result["vt_info"] = "Domain")
        /\ view.cls = "IpAddressView" <=>
             (entity.type = "IpAddressHandler"
              /\ result["vt_info"] = "IpAddress")
        /\ view.cls \in {"DomainView", "IpAddressView", "None"}
        /\ view.cls = "None" <=> pc = "raised"

C8_Witness ==
    /\ pc = "print"
    /\ view.cls = "IpAddressView"
    /\ result["vt_info"] = "IpAddress"

\* C9 as stated: when handler type and core result shape do not match, the
\* run ends with "Unsupported entity!" and nothing has been shown to the user.
Mismatch ==
    /\ ~(entity.type = "DomainHandler" /\ result["vt_info"] = "Domain")
    /\ ~(entity.type = "IpAddressHandler" /\ result["vt_info"] = "IpAddress")

C9_NoOutputAtAll ==
    (Called("generate_view") /\ Mismatch) =>
        /\ pc = "raised"
        /\ error = "Unsupported entity!"
        /\ output = <<>>

\* C9 amended: when handler type and core result shape do not match, the run
\* ends with "Unsupported entity!" and a failure status before any view is
\* built or printed; the warnings of the fetch pass have been printed.
C9_NoReportOutput ==
    (Called("generate_view") /\ Mismatch) =>
        /\ pc = "raised"
        /\ error = "Unsupported entity!"
        /\ exit_code = 1
        /\ view = NoView
        /\ ~Called("print")
        /\ output = [i \in 1..Len(warnings) |-> "warning"]

C9_Witness ==
    /\ pc = "raised"
    /\ Mismatch
    /\ Len(output) >= 1

\* C6: a call of an optional provider that stores nothing adds exactly one
\* warning, naming that provider, and leaves the result fields alone; the
\* generator goes on, a provider that failed keeps its field unset and has
\* one warning, and the pass reaches warnings-ready.
OptionalCallReturnsNothing ==
    /\ pc = "fetching" /\ gstage = "call" /\ HasCurrent
    /\ Current \in Optional
    /\ writes' = writes

C6_OptionalFailure ==
    /\ [][OptionalCallReturnsNothing =>
            /\ Len(warnings') = Len(warnings) + 1
            /\ warnings' = Append(warnings, Current)
            /\ result' = result
            /\ pc' = "fetching"
            /\ gstage' = "adv" /\ gi' = gi]_vars
    /\ [](\A p \in Optional :
            p \in Range(warnings) =>
                /\ result[p] = "None"
                /\ Count(warnings, p) = 1
                /\ ~HandlerFailed)
    /\ [](pc = "warnings_ready" =>
            Len(warnings) =
              Cardinality({p \in Optional :
                             Configured(entity, p) /\ result[p] = "None"}))
    /\ (pc = "fetching" /\ warnings # <<>>) ~> (pc = "warnings_ready")

C6_Witness ==
    /\ pc = "warnings_ready"
    /\ Len(warnings) >= 2
    /\ \E p \in Optional : Configured(entity, p) /\ result[p] # "None"

\* C7: once an optional provider has failed the run is never ended by an
\* error and reaches done, where the warnings and then the report of the
\* entity's kind have been printed and the sections of the failed providers
\* are empty; every run ends in done unless a mandatory provider failed.
C7_OptionalFailuresOnly ==
    /\ [](warnings # <<>> => error = "" /\ pc \notin {"exited", "raised"})
    /\ [](pc = "done" =>
            /\ exit_code = 0
            /\ view.cls = (IF config.entity \in IpEntities
                           THEN "IpAddressView" ELSE "DomainView")
            /\ output = [i \in 1..Len(warnings) |-> "warning"] \o <<view.cls>>
            /\ \A p \in Optional \cap Range(warnings) :
                 view.sections[p] = "None")
    /\ (warnings # <<>>) ~> (pc = "done")
    /\ <>(pc = "done" \/ HandlerFailed)

C7_Witness ==
    /\ pc = "done"
    /\ config.entity = "example.com"
    /\ ~config.ip2whois_api_key
    /\ Len(warnings) = 1
    /\ view.cls = "DomainView"

\* C10: main() only moves forward through idle, fetching, warnings-ready and
\* done; its calls are a prefix of generate_entity_handler, fetch_data,
\* print_warnings, generate_view, print, each made once; warnings are shown
\* only after the pass has ended and before any view exists; at most one
\* report is printed.
Rank(s) ==
    CASE s \in {"config", "handler"} -> 0
      [] s = "fetching" -> 1
      [] s \in {"warnings_ready", "view", "print"} -> 2
      [] OTHER -> 3

MainOrder == <<"generate_entity_handler", "fetch_data", "print_warnings",
               "generate_view", "print">>

C10_LinearPass ==
    /\ [][Rank(pc') >= Rank(pc)]_vars
    /\ [](/\ Len(trace) <= Len(MainOrder)
          /\ \A i \in 1..Len(trace) : trace[i] = MainOrder[i])
    /\ [](Called("fetch_data") <=> Rank(pc) >= 1)
    /\ [](Called("print_warnings") => live = "stopped" /\ Rank(pc) >= 2)
    /\ []("warning" \in Range(output) => Called("print_warnings"))
    /\ [][Called("generate_view") => output' = output \/ pc = "print"]_vars
    /\ []((view # NoView \/ Range(output) \cap Reports # {}) =>
            Called("print_warnings"))
    /\ [](Cardinality({i \in 1..Len(output) : output[i] \in Reports}) <= 1)
    /\ [](pc = "done" => Count(trace, "fetch_data") = 1)

C10_Witness ==
    /\ pc = "done"
    /\ Len(warnings) >= 1
    /\ output[Len(output)] \in Reports

\* a step of the loop at main.py:144 that consumed an event of kind k
Consumed(k) ==
    /\ Len(events') = Len(events) + 1
    /\ events'[Len(events')].kind = k
LastEvent == events'[Len(events')]
ForceChanged(i) == tasks'[i].forced # tasks[i].forced

\* C11: a phase-start event sets the open task, if there is one, to 100 and
\* appends the new task after it; a task is force-completed only by such an
\* event or by the end of the event sequence, and only while it is the open
\* task.
C11_CloseOnNextOpen ==
    /\ [][Consumed("tuple") =>
            /\ Len(tasks') = Len(tasks) + 1
            /\ task' = Len(tasks')
            /\ tasks'[task'].forced = 0
            /\ task # 0 =>
                 /\ tasks'[task].completed = 100
                 /\ tasks'[task].forced = tasks[task].forced + 1
            /\ \A i \in 1..Len(tasks) : i # task => tasks'[i] = tasks[i]]_vars
    /\ [][\A i \in 1..Len(tasks) :
            ForceChanged(i) =>
                /\ i = task
                /\ Consumed("tuple")
                   \/ (pc = "fetching" /\ pc' = "warnings_ready")]_vars
    /\ [](\A i \in 1..Len(tasks) : tasks[i].forced <= 1)

C11_Witness ==
    /\ pc = "fetching"
    /\ Len(tasks) = 2
    /\ tasks[1].forced = 1 /\ tasks[1].completed = 100
    /\ tasks[2].forced = 0

\* C12 as stated: after a phase-start event (label, weight) the new task has
\* total = weight and no progress.
C12_WeightIsTotal ==
    [][Consumed("tuple") =>
         /\ tasks'[Len(tasks')].total = LastEvent.n
         /\ tasks'[Len(tasks')].completed = 0]_vars

\* C12 amended: after a phase-start event (label, n) the new task has the
\* label, the default total of 100, and n already applied as its progress.
C12_WeightIsAdvance ==
    [][Consumed("tuple") =>
         /\ tasks'[Len(tasks')].descr = LastEvent.descr
         /\ tasks'[Len(tasks')].total = TaskTotal
         /\ tasks'[Len(tasks')].completed = LastEvent.n]_vars

C12_Witness ==
    /\ Len(events) >= 1
    /\ events[Len(events)].kind = "tuple"
    /\ events[Len(events)].n = 33
    /\ tasks[Len(tasks)].completed = 33
    /\ tasks[Len(tasks)].total = 100

\* C13: a phase-progress event x, with a task open, adds x to the progress
\* of the most recently opened task and changes no other task.
C13_AdvanceOpenPhase ==
    [][(Consumed("int") /\ tasks # <<>>) =>
         /\ task = Len(tasks)
         /\ task' = task
         /\ tasks' = [tasks EXCEPT ![Len(tasks)].completed = @ + LastEvent.n]
         /\ \A i \in 1..(Len(tasks) - 1) : tasks'[i] = tasks[i]]_vars

C13_Witness ==
    /\ Len(tasks) = 2
    /\ Len(events) = 3
    /\ events[3].kind = "int"
    /\ tasks[2].completed = events[2].n + events[3].n
    /\ tasks[1].completed = 100

\* C14: once a HandlerException is caught nothing more is pulled from the
\* generator and no task is opened, advanced or completed; the progress
\* display is stopped before the error is shown; the only step left shows
\* the error and ends the process with a failure status.
C14_AbortOnMandatoryFailure ==
    /\ [](pc = "caught" =>
            /\ live = "stopped"
            /\ "error" \notin Range(output)
            /\ exit_code = -1)
    /\ [][(pc = "caught" \/ pc = "exited") =>
            /\ events' = events
            /\ steps' = steps
            /\ tasks' = tasks
            /\ task' = task
            /\ result' = result
            /\ warnings' = warnings]_vars
    /\ [][pc = "caught" =>
            /\ pc' = "exited"
            /\ exit_code' = 1
            /\ error' = caught
            /\ output' = Append(output, "error")]_vars
    /\ [][("error" \in Range(output') /\ "error" \notin Range(output)) =>
            live = "stopped"]_vars
    /\ [](pc = "exited" => exit_code = 1 /\ live = "stopped")

C14_Witness ==
    /\ pc = "exited"
    /\ Len(events) = 2
    /\ task # 0
    /\ tasks[task].forced = 0

\* the configuration flag of an optional provider
Flag(p) ==
    CASE p = "shodan" -> config.use_shodan
      [] p = "greynoise" -> config.use_greynoise
      [] p = "abuseipdb" -> config.use_abuseipdb
      [] p = "urlhaus" -> config.use_urlhaus

\* C15: every optional result field is unset at the start, is assigned at
\* most once and only if its client was configured, keeps its value once
\* set, and is read by generate_view only after the fetch pass has ended,
\* where a field without a client is still unset.
C15_OptionalFields ==
    /\ [](pc \in {"config", "handler"} =>
            \A p \in Optional : result[p] = "None" /\ writes[p] = 0)
    /\ [](\A p \in Optional :
            /\ writes[p] <= 1
            /\ writes[p] = 0 <=> result[p] = "None"
            /\ ~Flag(p) => result[p] = "None")
    /\ [][\A p \in Optional :
            result[p] # "None" => result'[p] = result[p]]_vars
    /\ [][pc # "fetching" => result' = result]_vars
    /\ [](Called("generate_view") => Called("fetch_data") /\ PassEnded)
    /\ [](view # NoView =>
            \A p \in Optional :
                /\ view.sections[p] = result[p]
                /\ ~Flag(p) => view.sections[p] = "None")

C15_Witness ==
    /\ pc = "done"
    /\ config.use_shodan /\ result["shodan"] # "None"
    /\ view.sections["shodan"] = result["shodan"]
    /\ ~config.use_greynoise /\ view.sections["greynoise"] = "None"
    /\ config.use_urlhaus /\ result["urlhaus"] = "None"

\* C16: handler variant and WHOIS client agree: the WHOIS client of an IP
\* handler is the very object that is its core client, a handler with the
\* dedicated WHOIS client is a domain handler, and neither the entity nor
\* the handler changes once the handler is built.
C16_VariantAndWhoisAgree ==
    /\ [](Built =>
            /\ entity.type = "IpAddressHandler" =>
                 /\ entity.whois_client = entity.vt_client
                 /\ entity.whois_client.id = vt_client.id
                 /\ entity.whois_client.cls # "Ip2WhoisClient"
            /\ entity.whois_client.cls = "Ip2WhoisClient" =>
                 entity.type = "DomainHandler"
            /\ entity.entity = config.entity)
    /\ [][config' = config]_vars
    /\ [][Built => entity' = entity]_vars

C16_Witness ==
    /\ Built
    /\ entity.type = "IpAddressHandler"
    /\ config.ip2whois_api_key
    /\ entity.whois_client = entity.vt_client
    /\ pc = "done"

\* C17: while the events are consumed, every task but the last is
\* force-completed and at 100; the last one is the open task and is the
\* only one not force-completed.
C17_OneOpenPhase ==
    pc = "fetching" =>
        /\ \A i \in 1..(Len(tasks) - 1) :
             tasks[i].forced >= 1 /\ tasks[i].completed = 100
        /\ tasks # <<>> => task = Len(tasks) /\ tasks[task].forced = 0
        /\ tasks = <<>> => task = 0
        /\ Cardinality({i \in 1..Len(tasks) : tasks[i].forced = 0}) <= 1

C17_Witness ==
    /\ pc = "fetching"
    /\ Len(tasks) = 3
    /\ tasks[3].completed < 100

\* C18: as many tasks exist as tuple events were consumed; an int event
\* never adds a task, and an int event that finds no task open changes
\* nothing of the progress state.
TupleEvents == {i \in 1..Len(events) : events[i].kind = "tuple"}

C18_PhasesAreTuples ==
    /\ [](Len(tasks) = Cardinality(TupleEvents))
    /\ [][Consumed("int") =>
            /\ Len(tasks') = Len(tasks)
            /\ task' = task
            /\ task = 0 => (tasks' = tasks /\ live' = live /\ pc' = pc
                            /\ output' = output /\ error' = error)]_vars

C18_Witness ==
    /\ Len(events) = 2
    /\ events[1].kind = "int"
    /\ events[2].kind = "tuple"
    /\ Len(tasks) = 1
    /\ tasks[1].completed = events[2].n

\* main() with the documented DomainHandler / IpAddressHandler
Spec == Init /\ [][Next]_vars

\* the same run, every step of which is eventually taken
LiveSpec == Init /\ [][Next]_vars /\ WF_vars(Next)

\* main() with a handler whose fetch_data is any generator
SpecAny == InitAny /\ [][NextAny]_vars
====
